---------------------------- MODULE Spec2Model ----------------------------
(***************************************************************************)
(* Model of Task3/matrix_tool.py: the text-to-matrix parser, the text      *)
(* serialiser, the number formatter and the handlers of MatrixToolApp.     *)
(*                                                                         *)
(* Text is a sequence of one-character strings.  A number is a normalised  *)
(* decimal [m |-> mantissa, e |-> number of fraction digits] standing for  *)
(* m / 10^e; arithmetic on it is exact (binary round-off of float64 is not *)
(* modelled; every value the model reaches has a handful of digits, and   *)
(* the non-finite values inf and nan are not among them).                  *)
(* An ndarray is [ndim |-> 2, nrows, ncols, rows], [ndim |-> 1, vals] or   *)
(* [ndim |-> 0, val], each tagged kind |-> "ndarray"; a Python float is    *)
(* [kind |-> "float", val] and None is [kind |-> "None"].                  *)
(***************************************************************************)
EXTENDS Integers, Sequences, FiniteSets, TLC

VARIABLES
    a_txt,           \* contents of the "Matrix A" text area
    b_txt,           \* contents of the "Matrix B" text area
    single_choice,   \* the Use A / Use B selector
    current_result,  \* the last-result holder
    shown,           \* what the result frame displays
    status,          \* the status bar
    clipboard,       \* the system clipboard
    saved,           \* the file last written by Save Result
    text,            \* input of the pure-function specifications
    grid,            \* input grid of the round-trip specification
    out,             \* output of the pure-function specifications
    pc               \* position of the pure-function specifications

vars == <<a_txt, b_txt, single_choice, current_result, shown, status,
          clipboard, saved, text, grid, out, pc>>

appVars == <<a_txt, b_txt, single_choice, current_result, shown, status,
             clipboard, saved>>

pureVars == <<text, grid, out, pc>>

-----------------------------------------------------------------------------
(* Characters and Python's str helpers                                     *)

Digits == <<"0", "1", "2", "3", "4", "5", "6", "7", "8", "9">>

IsDigit(c) == \E i \in 1..10 : Digits[i] = c

DigitVal(c) == (CHOOSE i \in 1..10 : Digits[i] = c) - 1

\* str.isspace on the characters a text can hold
IsSpace(c) == c \in {" ", "\t", "\n", "\r", "\f"}

\* the line boundaries str.splitlines breaks at ("\r\n" counts once)
IsLineBreak(c) == c \in {"\n", "\r", "\f"}

RECURSIVE LStrip(_)
LStrip(s) ==
    IF s = <<>> THEN <<>>
    ELSE IF IsSpace(Head(s)) THEN LStrip(Tail(s)) ELSE s

RECURSIVE RStrip(_)
RStrip(s) ==
    IF s = <<>> THEN <<>>
    ELSE IF IsSpace(s[Len(s)]) THEN RStrip(SubSeq(s, 1, Len(s) - 1)) ELSE s

\* str.strip()
Strip(s) == RStrip(LStrip(s))

\* str.splitlines(): cur is the line being read; a final empty line is dropped
RECURSIVE SplitLinesFrom(_, _, _)
SplitLinesFrom(s, cur, acc) ==
    IF s = <<>> THEN (IF cur = <<>> THEN acc ELSE Append(acc, cur))
    ELSE IF Head(s) = "\r" /\ Len(s) > 1 /\ s[2] = "\n"
         THEN SplitLinesFrom(Tail(Tail(s)), <<>>, Append(acc, cur))
    ELSE IF IsLineBreak(Head(s))
         THEN SplitLinesFrom(Tail(s), <<>>, Append(acc, cur))
    ELSE SplitLinesFrom(Tail(s), Append(cur, Head(s)), acc)

SplitLines(s) == SplitLinesFrom(s, <<>>, <<>>)

\* str.replace(',', ' ')
ReplaceCommas(s) == [i \in 1..Len(s) |-> IF s[i] = "," THEN " " ELSE s[i]]

\* str.split(): the maximal runs of non-whitespace characters
RECURSIVE SplitFrom(_, _, _)
SplitFrom(s, cur, acc) ==
    IF s = <<>> THEN (IF cur = <<>> THEN acc ELSE Append(acc, cur))
    ELSE IF IsSpace(Head(s))
         THEN SplitFrom(Tail(s), <<>>, IF cur = <<>> THEN acc ELSE Append(acc, cur))
    ELSE SplitFrom(Tail(s), Append(cur, Head(s)), acc)

Split(s) == SplitFrom(s, <<>>, <<>>)

\* sep.join(parts)
RECURSIVE Join(_, _)
Join(sep, parts) ==
    IF parts = <<>> THEN <<>>
    ELSE IF Len(parts) = 1 THEN parts[1]
    ELSE parts[1] \o sep \o Join(sep, Tail(parts))

-----------------------------------------------------------------------------
(* Numbers                                                                 *)

RECURSIVE Pow10(_)
Pow10(n) == IF n = 0 THEN 1 ELSE 10 * Pow10(n - 1)

Abs(n) == IF n < 0 THEN -n ELSE n

\* the normal form of m / 10^e: no trailing zero among the fraction digits
RECURSIVE Norm(_, _)
Norm(m, e) ==
    IF e > 0 /\ m % 10 = 0 THEN Norm(m \div 10, e - 1) ELSE [m |-> m, e |-> e]

Num(n) == [m |-> n, e |-> 0]

NumAdd(x, y) ==
    LET e == IF x.e > y.e THEN x.e ELSE y.e
    IN  Norm(x.m * Pow10(e - x.e) + y.m * Pow10(e - y.e), e)

NumNeg(x) == [m |-> -x.m, e |-> x.e]

NumSub(x, y) == NumAdd(x, NumNeg(y))

NumMul(x, y) == Norm(x.m * y.m, x.e + y.e)

\* the value of a run of decimal digits
RECURSIVE DigitsVal(_)
DigitsVal(s) ==
    IF s = <<>> THEN 0
    ELSE 10 * DigitsVal(SubSeq(s, 1, Len(s) - 1)) + DigitVal(s[Len(s)])

\* the decimal digits of n >= 0
RECURSIVE NatToText(_)
NatToText(n) ==
    IF n < 10 THEN <<Digits[n + 1]>>
    ELSE Append(NatToText(n \div 10), Digits[(n % 10) + 1])

\* str(int)
IntToText(n) == IF n < 0 THEN <<"-">> \o NatToText(-n) ELSE NatToText(n)

\* n >= 0 written with exactly k digits
RECURSIVE PadDigits(_, _)
PadDigits(n, k) ==
    IF k = 0 THEN <<>>
    ELSE Append(PadDigits(n \div 10, k - 1), Digits[(n % 10) + 1])

-----------------------------------------------------------------------------
(* float(p)                                                                *)

Unsigned(tok) ==
    IF tok # <<>> /\ Head(tok) \in {"-", "+"} THEN Tail(tok) ELSE tok

\* an unsigned literal: digits with at most one point and at least one digit
IsUnsignedLiteral(u) ==
    /\ \A i \in 1..Len(u) : IsDigit(u[i]) \/ u[i] = "."
    /\ Cardinality({i \in 1..Len(u) : u[i] = "."}) <= 1
    /\ \E i \in 1..Len(u) : IsDigit(u[i])

\* whether float(tok) returns: an optional sign, then an unsigned literal.
\* (Exponents, underscores and the words inf and nan need characters that no
\* text of the model holds.)
IsFloatLiteral(tok) == IsUnsignedLiteral(Unsigned(tok))

\* the number of digits after the point
FractionDigits(u) ==
    IF \E i \in 1..Len(u) : u[i] = "."
    THEN Len(u) - (CHOOSE i \in 1..Len(u) : u[i] = ".")
    ELSE 0

UnsignedVal(u) == Norm(DigitsVal(SelectSeq(u, IsDigit)), FractionDigits(u))

\* the value float(tok) returns for a literal it accepts
FloatOf(tok) ==
    IF tok # <<>> /\ Head(tok) = "-"
    THEN NumNeg(UnsignedVal(Tail(tok)))
    ELSE UnsignedVal(Unsigned(tok))

-----------------------------------------------------------------------------
(* ndarrays                                                                *)

None == [kind |-> "None"]

Float(x) == [kind |-> "float", val |-> x]

Matrix(rows, ncols) ==
    [kind |-> "ndarray", ndim |-> 2, nrows |-> Len(rows), ncols |-> ncols,
     rows |-> rows]

Vector(vals) == [kind |-> "ndarray", ndim |-> 1, vals |-> vals]

Scalar0d(x) == [kind |-> "ndarray", ndim |-> 0, val |-> x]

Shape(mat) == <<mat.nrows, mat.ncols>>

\* np.array(rows) for rows of one common length
ArrayOf(rows) == Matrix(rows, Len(rows[1]))

-----------------------------------------------------------------------------
(* parse_matrix                                                            *)

Ok(mat) == [kind |-> "ok", mat |-> mat]

Err(type, msg, arg) == [kind |-> "error", type |-> type, msg |-> msg, arg |-> arg]

\* a faulty NonBlankLines, one that keeps the blank lines
NonBlankLinesUnfiltered(t) ==
    LET ls == SplitLines(Strip(t)) IN [i \in 1..Len(ls) |-> Strip(ls[i])]

StripEach(ls) == [i \in 1..Len(ls) |-> Strip(ls[i])]

NotEmpty(s) == s # <<>>

\* lines = [ln.strip() for ln in text.strip().splitlines() if ln.strip()]
NonBlankLines(t) == SelectSeq(StripEach(SplitLines(Strip(t))), NotEmpty)

\* parts = [p for p in ln.replace(',', ' ').split() if p]
Parts(ln) == SelectSeq(Split(ReplaceCommas(ln)), NotEmpty)

AllFloat(parts) == \A i \in 1..Len(parts) : IsFloatLiteral(parts[i])

\* whether [float(p) for p in parts] raises no ValueError
LineIsNumeric(ln) == AllFloat(Parts(ln))

Floats(parts) == [i \in 1..Len(parts) |-> FloatOf(parts[i])]

\* row = [float(p) for p in parts]
RowOf(ln) == Floats(Parts(ln))

\* the first line whose conversion raises
FirstBadLine(lines) ==
    lines[CHOOSE i \in 1..Len(lines) :
              /\ ~LineIsNumeric(lines[i])
              /\ \A j \in 1..(i - 1) : LineIsNumeric(lines[j])]

\* lengths = {len(r) for r in rows}; the check of len(lengths); np.array(rows)
CheckRows(rows) ==
    IF Cardinality({Len(rows[i]) : i \in 1..Len(rows)}) # 1
    THEN Err("RaggedRows", "Rows have inconsistent number of columns", <<>>)
    ELSE Ok(ArrayOf(rows))

\* parse_matrix from its second statement on
ParseLines(lines) ==
    IF lines = <<>>
    THEN Err("EmptyInput", "Input is empty", <<>>)
    ELSE IF \E i \in 1..Len(lines) : ~LineIsNumeric(lines[i])
    THEN Err("NonNumericToken", "Non-numeric value found in line",
             FirstBadLine(lines))
    ELSE CheckRows([i \in 1..Len(lines) |-> RowOf(lines[i])])

parse_matrix(t) == ParseLines(NonBlankLines(t))

-----------------------------------------------------------------------------
(* str(x), matrix_to_text and _fmt                                         *)

\* x in positional notation; an integer gets ".0" when pointZero is set
Positional(x, pointZero) ==
    LET mag == Abs(x.m)
        p   == Pow10(x.e)
        ip  == NatToText(mag \div p)
        fp  == IF x.e = 0
               THEN (IF pointZero THEN <<".", "0">> ELSE <<>>)
               ELSE <<".">> \o PadDigits(mag % p, x.e)
    IN  (IF x.m < 0 THEN <<"-">> ELSE <<>>) \o ip \o fp

\* a faulty Str, one that writes at most one fraction digit
StrOneDecimal(x) ==
    IF x.e <= 1 THEN Positional(x, TRUE)
    ELSE Positional(Norm(x.m \div Pow10(x.e - 1), 1), TRUE)

\* str(x) of a float: the shortest text that reads back as x, which is
\* positional for 1e-4 <= |x| < 1e16 (every value of the model) and x = 0
Str(x) == Positional(x, TRUE)

matrix_to_text(mat) ==
    Join(<<"\n">>,
         [i \in 1..mat.nrows |->
             Join(<<" ">>, [j \in 1..Len(mat.rows[i]) |-> Str(mat.rows[i][j])])])

\* f"{x:.6g}" of a non-integer x with 1e-4 <= |x| < 1e6: six significant
\* digits (the seventh rounds half to even), trailing zeros dropped
Format6g(x) ==
    LET mag  == Abs(x.m)
        nd   == Len(NatToText(mag))
        k    == nd - 6
        q    == mag \div Pow10(k)
        r    == mag % Pow10(k)
        up   == 2 * r > Pow10(k) \/ (2 * r = Pow10(k) /\ q % 2 = 1)
        rnd  == IF up THEN q + 1 ELSE q
        sgn(n) == IF x.m < 0 THEN -n ELSE n
    IN  IF nd <= 6 THEN Positional(x, FALSE)
        ELSE Positional(Norm(sgn(rnd), x.e - k), FALSE)

\* abs(x - round(x)) < 1e-9: a value of the model has fewer than nine
\* fraction digits, so it is within 1e-9 of an integer only when it is one
NearInteger(x) == x.e = 0

_fmt(x) == IF NearInteger(x) THEN IntToText(x.m) ELSE Format6g(x)

-----------------------------------------------------------------------------
(* numpy operations                                                        *)

\* a faulty MatAdd, one that subtracts
MatAddAsSub(a, b) ==
    Matrix([i \in 1..a.nrows |->
               [j \in 1..a.ncols |-> NumSub(a.rows[i][j], b.rows[i][j])]],
           a.ncols)

\* a + b for arrays of one shape
MatAdd(a, b) ==
    Matrix([i \in 1..a.nrows |->
               [j \in 1..a.ncols |-> NumAdd(a.rows[i][j], b.rows[i][j])]],
           a.ncols)

\* a - b for arrays of one shape
MatSub(a, b) ==
    Matrix([i \in 1..a.nrows |->
               [j \in 1..a.ncols |-> NumSub(a.rows[i][j], b.rows[i][j])]],
           a.ncols)

RECURSIVE DotSum(_, _, _, _, _)
DotSum(a, b, i, j, k) ==
    IF k = 0 THEN Num(0)
    ELSE NumAdd(DotSum(a, b, i, j, k - 1), NumMul(a.rows[i][k], b.rows[k][j]))

\* a faulty MatDot, one that leaves out the last term of every sum
MatDotShort(a, b) ==
    Matrix([i \in 1..a.nrows |->
               [j \in 1..b.ncols |-> DotSum(a, b, i, j, a.ncols - 1)]],
           b.ncols)

\* a.dot(b) for a.ncols = b.nrows
MatDot(a, b) ==
    Matrix([i \in 1..a.nrows |->
               [j \in 1..b.ncols |-> DotSum(a, b, i, j, a.ncols)]],
           b.ncols)

\* mat.T
MatT(mat) ==
    Matrix([j \in 1..mat.ncols |->
               [i \in 1..mat.nrows |-> mat.rows[i][j]]],
           mat.nrows)

\* sq without its first row and its column c
Minor(sq, c) ==
    [i \in 1..(Len(sq) - 1) |->
        [j \in 1..(Len(sq) - 1) |-> sq[i + 1][IF j < c THEN j ELSE j + 1]]]

\* np.linalg.det, as the exact expansion along the first row
RECURSIVE Det(_)
RECURSIVE DetSum(_, _)
DetSum(sq, c) ==
    IF c = 0 THEN Num(0)
    ELSE LET term == NumMul(sq[1][c], Det(Minor(sq, c)))
         IN  NumAdd(DetSum(sq, c - 1), IF c % 2 = 1 THEN term ELSE NumNeg(term))
Det(sq) ==
    IF Len(sq) = 1 THEN sq[1][1] ELSE DetSum(sq, Len(sq))

-----------------------------------------------------------------------------
(* MatrixToolApp: the state after construction                             *)

Status(msg, arg) == [msg |-> msg, arg |-> arg]

NoFile == [name |-> "", content |-> <<>>]

AppInit ==
    /\ a_txt = <<>>
    /\ b_txt = <<>>
    /\ single_choice = "A"
    /\ current_result = None
    /\ shown = [kind |-> "message", text |-> "No result yet"]
    /\ status = Status("Ready", None)
    /\ clipboard = <<>>
    /\ saved = NoFile

PureIdle ==
    /\ text = <<>>
    /\ grid = None
    /\ out = [kind |-> "pending"]
    /\ pc = "idle"

Init == AppInit /\ PureIdle

-----------------------------------------------------------------------------
(* MatrixToolApp: UI helpers                                               *)

\* a faulty _create_result_area, one that leaves the holder as it is
CreateResultAreaKeepResult ==
    /\ shown' = [kind |-> "message", text |-> "No result yet"]
    /\ UNCHANGED current_result

_create_result_area ==
    /\ shown' = [kind |-> "message", text |-> "No result yet"]
    /\ current_result' = None

_show_matrix_result(mat) ==
    /\ shown' = [kind |-> "tree", ncols |-> mat.ncols,
                 rows |-> [i \in 1..mat.nrows |->
                              [j \in 1..mat.ncols |-> _fmt(mat.rows[i][j])]]]
    /\ current_result' = mat
    /\ status' = Status("Result: matrix", [nrows |-> mat.nrows, ncols |-> mat.ncols])

_show_scalar_result(value, label) ==
    /\ shown' = [kind |-> "label", label |-> label, text |-> _fmt(value)]
    /\ current_result' = Float(value)
    /\ status' = Status("shown", [label |-> label])

\* Text.get('1.0', tk.END): the contents and the widget's final newline
TextGet(txt) == txt \o <<"\n">>

\* None for a blank text, else what parse_matrix returns or raises
ParseUnlessBlank(str) ==
    IF Strip(str) # <<>> THEN parse_matrix(str) ELSE Ok(None)

\* a is parsed first: its error is the one raised
PairOf(pa, pb) ==
    IF pa.kind = "error" THEN pa
    ELSE IF pb.kind = "error" THEN pb
    ELSE [kind |-> "ok", a |-> pa.mat, b |-> pb.mat]

\* the pair (a, b), or the error parse_matrix raised
_get_matrices ==
    PairOf(ParseUnlessBlank(TextGet(a_txt)), ParseUnlessBlank(TextGet(b_txt)))

\* the modal message box is dismissed before the handler returns
_handle_error(err) ==
    /\ status' = Status("Error", err)
    /\ UNCHANGED <<current_result, shown>>

-----------------------------------------------------------------------------
(* MatrixToolApp: operations                                               *)

OpFrame == UNCHANGED <<a_txt, b_txt, single_choice, clipboard, saved>>
           /\ UNCHANGED pureVars

\* add, after a, b = self._get_matrices()
AddOf(got) ==
    IF got.kind = "error" THEN _handle_error(got)
    ELSE IF got.a = None \/ got.b = None
    THEN _handle_error(Err("MissingOperand",
             "Both matrices A and B are required for addition", <<>>))
    ELSE IF Shape(got.a) # Shape(got.b)
    THEN _handle_error(Err("ShapeMismatch",
             "Matrices must have the same shape for addition", <<>>))
    ELSE _show_matrix_result(MatAdd(got.a, got.b))

add == OpFrame /\ AddOf(_get_matrices)

SubOf(got) ==
    IF got.kind = "error" THEN _handle_error(got)
    ELSE IF got.a = None \/ got.b = None
    THEN _handle_error(Err("MissingOperand",
             "Both matrices A and B are required for subtraction", <<>>))
    ELSE IF Shape(got.a) # Shape(got.b)
    THEN _handle_error(Err("ShapeMismatch",
             "Matrices must have the same shape for subtraction", <<>>))
    ELSE _show_matrix_result(MatSub(got.a, got.b))

sub == OpFrame /\ SubOf(_get_matrices)

MulOf(got) ==
    IF got.kind = "error" THEN _handle_error(got)
    ELSE IF got.a = None \/ got.b = None
    THEN _handle_error(Err("MissingOperand",
             "Both matrices A and B are required for multiplication", <<>>))
    ELSE IF got.a.ncols # got.b.nrows
    THEN _handle_error(Err("InnerDimMismatch",
             "Inner dimensions must match for multiplication", <<>>))
    ELSE _show_matrix_result(MatDot(got.a, got.b))

mul == OpFrame /\ MulOf(_get_matrices)

\* mat = a if choice == 'A' else b
Chosen(choice, got) == IF choice = "A" THEN got.a ELSE got.b

TransposeOf(choice, mat) ==
    IF mat = None
    THEN _handle_error(Err("MissingOperand", "Matrix is empty", <<choice>>))
    ELSE _show_matrix_result(MatT(mat))

TransposeGot(choice, got) ==
    IF got.kind = "error" THEN _handle_error(got)
    ELSE TransposeOf(choice, Chosen(choice, got))

transpose == OpFrame /\ TransposeGot(single_choice, _get_matrices)

DeterminantOf(choice, mat) ==
    IF mat = None
    THEN _handle_error(Err("MissingOperand", "Matrix is empty", <<choice>>))
    ELSE IF mat.nrows # mat.ncols
    THEN _handle_error(Err("NotSquare",
             "Determinant requires a square matrix", <<>>))
    ELSE _show_scalar_result(Det(mat.rows), "Determinant")

DeterminantGot(choice, got) ==
    IF got.kind = "error" THEN _handle_error(got)
    ELSE DeterminantOf(choice, Chosen(choice, got))

determinant == OpFrame /\ DeterminantGot(single_choice, _get_matrices)

-----------------------------------------------------------------------------
(* MatrixToolApp: utilities                                                *)

ex_a == <<"1", " ", "2", " ", "3", "\n", "4", " ", "5", " ", "6", "\n",
          "7", " ", "8", " ", "9">>

ex_b == <<"9", " ", "8", " ", "7", "\n", "6", " ", "5", " ", "4", "\n",
          "3", " ", "2", " ", "1">>

fill_example ==
    /\ a_txt' = ex_a
    /\ b_txt' = ex_b
    /\ status' = Status("Example matrices filled", None)
    /\ UNCHANGED <<single_choice, current_result, shown, clipboard, saved>>
    /\ UNCHANGED pureVars

clear_all ==
    /\ a_txt' = <<>>
    /\ b_txt' = <<>>
    /\ _create_result_area
    /\ status' = Status("Cleared", None)
    /\ UNCHANGED <<single_choice, clipboard, saved>>
    /\ UNCHANGED pureVars

copy_result ==
    /\ IF current_result = None
       THEN UNCHANGED <<clipboard, status>>
       ELSE /\ clipboard' = IF current_result.kind = "ndarray"
                            THEN matrix_to_text(current_result)
                            ELSE Str(current_result.val)
            /\ status' = Status("Result copied to clipboard", None)
    /\ UNCHANGED <<a_txt, b_txt, single_choice, current_result, shown, saved>>
    /\ UNCHANGED pureVars

\* "%g" % x
PercentG(x) == IF x.e = 0 THEN IntToText(x.m) ELSE Format6g(x)

RECURSIVE Concat(_)
Concat(parts) == IF parts = <<>> THEN <<>> ELSE Head(parts) \o Concat(Tail(parts))

\* what np.savetxt(filename, mat, delimiter=',', fmt='%g') writes
SaveText(mat) ==
    Concat([i \in 1..mat.nrows |->
               Join(<<",">>, [j \in 1..mat.ncols |-> PercentG(mat.rows[i][j])])
               \o <<"\n">>])

\* what the save dialog returns, and whether the file chosen can be written
CancelFile == [name |-> "", writable |-> FALSE]

SaveChoices ==
    {CancelFile,
     [name |-> "result.csv", writable |-> TRUE],
     [name |-> "readonly.csv", writable |-> FALSE]}

save_result_csv(f) ==
    /\ IF current_result = None \/ f.name = ""
       THEN UNCHANGED <<saved, status>>
       ELSE IF ~f.writable
       THEN /\ status' = Status("Error", Err("OSError", "Permission denied", <<>>))
            /\ UNCHANGED saved
       ELSE /\ saved' = [name |-> f.name,
                         content |-> IF current_result.kind = "ndarray"
                                     THEN SaveText(current_result)
                                     ELSE Str(current_result.val)]
            /\ status' = Status("Saved result to", [file |-> f.name])
    /\ UNCHANGED <<a_txt, b_txt, single_choice, current_result, shown, clipboard>>
    /\ UNCHANGED pureVars

\* the insert into the text area chosen
SetArea(which, txt) ==
    IF which = "A"
    THEN a_txt' = txt /\ UNCHANGED b_txt
    ELSE b_txt' = txt /\ UNCHANGED a_txt

\* mat.reshape(1, -1) of a flat vector
AsRow(arr) ==
    IF arr.ndim = 1 THEN Matrix(<<arr.vals>>, Len(arr.vals)) ELSE arr

\* a faulty load_csv_into, one that empties the text area before it reads
LoadClearFirst(which, f) ==
    /\ IF f.name = ""
       THEN UNCHANGED <<a_txt, b_txt, status>>
       ELSE IF f.data.kind = "error"
       THEN status' = Status("Error", f.data) /\ SetArea(which, <<>>)
       ELSE IF f.data.ndim = 0
       THEN /\ status' = Status("Error",
                             Err("TypeError", "iteration over a 0-d array", <<>>))
            /\ SetArea(which, <<>>)
       ELSE /\ SetArea(which, matrix_to_text(AsRow(f.data)))
            /\ status' = Status("Loaded from", [which |-> which, file |-> f.name])
    /\ UNCHANGED <<single_choice, current_result, shown, clipboard, saved>>
    /\ UNCHANGED pureVars

\* load_csv_into after the dialog returned f; f.data is what np.loadtxt
\* makes of the file: an ndarray, or the exception it raises
load_csv_into(which, f) ==
    /\ IF f.name = ""
       THEN UNCHANGED <<a_txt, b_txt, status>>
       ELSE IF f.data.kind = "error"
       THEN status' = Status("Error", f.data) /\ UNCHANGED <<a_txt, b_txt>>
       ELSE IF f.data.ndim = 0
       THEN /\ status' = Status("Error",
                             Err("TypeError", "iteration over a 0-d array", <<>>))
            /\ UNCHANGED <<a_txt, b_txt>>
       ELSE /\ SetArea(which, matrix_to_text(AsRow(f.data)))
            /\ status' = Status("Loaded from", [which |-> which, file |-> f.name])
    /\ UNCHANGED <<single_choice, current_result, shown, clipboard, saved>>
    /\ UNCHANGED pureVars

-----------------------------------------------------------------------------
(* The user: typing into a text area, picking Use A / Use B                *)

edit_a(t) ==
    /\ a_txt' = t
    /\ UNCHANGED <<b_txt, single_choice, current_result, shown, status,
                   clipboard, saved>>
    /\ UNCHANGED pureVars

edit_b(t) ==
    /\ b_txt' = t
    /\ UNCHANGED <<a_txt, single_choice, current_result, shown, status,
                   clipboard, saved>>
    /\ UNCHANGED pureVars

select_choice(c) ==
    /\ single_choice' = c
    /\ UNCHANGED <<a_txt, b_txt, current_result, shown, status, clipboard, saved>>
    /\ UNCHANGED pureVars

-----------------------------------------------------------------------------
(* Inputs                                                                  *)

Half == [m |-> 5, e |-> 1]

TxtWord == <<"x">>
Txt2x2 == <<"1", " ", "2", "\n", "3", " ", "4">>
Txt2x3 == <<"1", " ", "2", " ", "3", "\n", "4", " ", "5", " ", "6">>
Txt3x2 == <<"1", ",", "2", "\n", "\n", "3", ",", "4", "\n", "5", ",", " ", "6">>

\* what the user types in the specification of the operations
EditTexts == {TxtWord, Txt2x2, Txt2x3, Txt3x2}

\* what the user types in the specification with Copy, Save and Load
IOTexts == {TxtWord}

MissingFile == [name |-> "missing.csv",
                data |-> Err("OSError", "missing.csv not found.", <<>>)]

NoDataFile == [name |-> "", data |-> None]

\* the dialog cancelled; one row, which np.loadtxt returns as a flat vector
LoadFiles ==
    {NoDataFile,
     [name |-> "row.csv", data |-> Vector(<<Num(1), Half>>)]}

\* the dialog cancelled; no such file; one number; a table
IOLoadFiles ==
    {NoDataFile, MissingFile,
     [name |-> "cell.csv", data |-> Scalar0d(Num(7))],
     [name |-> "table.csv",
      data |-> Matrix(<<<<Num(1), Num(2)>>, <<Num(3), Num(4)>>>>, 2)]}

-----------------------------------------------------------------------------
(* Specification of the operations: the text areas and the five operations *)

TypeA == \E t \in EditTexts : edit_a(t)
TypeB == \E t \in EditTexts : edit_b(t)
Select == \E c \in {"A", "B"} : select_choice(c)
Load == \E w \in {"A", "B"}, f \in LoadFiles : load_csv_into(w, f)

Next ==
    \/ TypeA
    \/ TypeB
    \/ Select
    \/ Load
    \/ fill_example
    \/ clear_all
    \/ add
    \/ sub
    \/ mul
    \/ transpose
    \/ determinant

Spec == Init /\ [][Next]_vars

(* Specification of the operations with Copy Result, Save Result and Load: *)
(* the selector stays on A, a table comes from a file, the user types "x"  *)

IOTypeA == \E t \in IOTexts : edit_a(t)
IOTypeB == \E t \in IOTexts : edit_b(t)
IOLoad == \E w \in {"A", "B"}, f \in IOLoadFiles : load_csv_into(w, f)
Save == \E f \in SaveChoices : save_result_csv(f)

IONext ==
    \/ IOTypeA
    \/ IOTypeB
    \/ IOLoad
    \/ clear_all
    \/ add
    \/ sub
    \/ mul
    \/ transpose
    \/ determinant
    \/ copy_result
    \/ Save

SpecIO == Init /\ [][IONext]_vars

-----------------------------------------------------------------------------
(* The pure functions on their own: parse_matrix on every short text, and  *)
(* matrix_to_text followed by parse_matrix on every small grid             *)

MaxLen == 5

Alphabet == {"1", ".", "-", ",", " ", "\n", "x"}

Texts == UNION {[1..n -> Alphabet] : n \in 0..MaxLen}

MaxRows == 2

MaxCols == 2

\* -1.5, 10 and 0.05
GridValues == {[m |-> -15, e |-> 1], Num(10), [m |-> 5, e |-> 2]}

Grids ==
    UNION {{Matrix(rows, c) : rows \in [1..r -> [1..c -> GridValues]]} :
              r \in 1..MaxRows, c \in 1..MaxCols}

ParseInit ==
    /\ AppInit
    /\ text \in Texts
    /\ grid = None
    /\ out = [kind |-> "pending"]
    /\ pc = "text"

RoundInit ==
    /\ AppInit
    /\ text = <<>>
    /\ grid \in Grids
    /\ out = [kind |-> "pending"]
    /\ pc = "grid"

Serialise ==
    /\ pc = "grid"
    /\ text' = matrix_to_text(grid)
    /\ pc' = "text"
    /\ UNCHANGED <<grid, out>>
    /\ UNCHANGED appVars

ParseText ==
    /\ pc = "text"
    /\ out' = parse_matrix(text)
    /\ pc' = "done"
    /\ UNCHANGED <<text, grid>>
    /\ UNCHANGED appVars

SpecParse == ParseInit /\ [][ParseText]_vars

RoundNext == Serialise \/ ParseText

SpecRound == RoundInit /\ [][RoundNext]_vars

-----------------------------------------------------------------------------
(* Claims about the parser                                                 *)

IsBlankLine(ln) == \A i \in 1..Len(ln) : IsSpace(ln[i])

\* the lines of t that hold something other than whitespace
ClaimLines(t) == SelectSeq(SplitLines(t), LAMBDA ln : ~IsBlankLine(ln))

\* the tokens of a line, commas counting as whitespace
ClaimTokens(ln) == Split(ReplaceCommas(ln))

ExpectedOutcome(lines) ==
    IF lines = <<>> THEN "EmptyInput"
    ELSE IF \E i \in 1..Len(lines) :
                \E k \in 1..Len(ClaimTokens(lines[i])) :
                    ~IsFloatLiteral(ClaimTokens(lines[i])[k])
    THEN "NonNumericToken"
    ELSE IF \E i, j \in 1..Len(lines) :
                Len(ClaimTokens(lines[i])) # Len(ClaimTokens(lines[j]))
    THEN "RaggedRows"
    ELSE "ok"

OutcomeOf(o) == IF o.kind = "ok" THEN "ok" ELSE o.type

\* C1: parse fails with EmptyInput exactly when the text has no non-blank
\* line, else with NonNumericToken when some token is not a number, else
\* with RaggedRows when the token counts of the lines differ, else succeeds.
C1_ParseOutcome ==
    pc = "done" => OutcomeOf(out) = ExpectedOutcome(ClaimLines(text))

\* "1 x", then "1": a non-numeric token on ragged lines is NonNumericToken
C1_Witness ==
    /\ pc = "done"
    /\ text = <<"1", " ", "x", "\n", "1">>
    /\ out.kind = "error"
    /\ out.type = "NonNumericToken"

\* C2: every grid parse returns is rectangular with at least one row and at
\* least one column (no row of zero values, on any text).
C2_GridHasCells ==
    (pc = "done" /\ out.kind = "ok") =>
        /\ out.mat.nrows >= 1
        /\ out.mat.ncols >= 1
        /\ \A i \in 1..out.mat.nrows :
               Len(out.mat.rows[i]) = out.mat.ncols /\ Len(out.mat.rows[i]) >= 1

\* C8: for every valid grid g, parse(matrix_to_text(g)) succeeds with a grid
\* of the shape of g whose entries equal those of g.
C8_RoundTrip ==
    pc = "done" =>
        /\ out.kind = "ok"
        /\ Shape(out.mat) = Shape(grid)
        /\ \A i \in 1..grid.nrows : \A j \in 1..grid.ncols :
               out.mat.rows[i][j] = grid.rows[i][j]

\* a 2 x 2 grid holding -1.5 and 0.05 came back
C8_Witness ==
    /\ pc = "done"
    /\ grid.kind = "ndarray"
    /\ Shape(grid) = <<2, 2>>
    /\ grid.rows[1][1] = [m |-> -15, e |-> 1]
    /\ grid.rows[2][2] = [m |-> 5, e |-> 2]
    /\ text = <<"-", "1", ".", "5", " ", "1", "0", ".", "0", "\n",
                "1", "0", ".", "0", " ", "0", ".", "0", "5">>
    /\ out.kind = "ok"

-----------------------------------------------------------------------------
(* Claims about the operations                                             *)

\* a text area is blank when it holds nothing but whitespace
IsBlank(txt) == \A i \in 1..Len(txt) : IsSpace(txt[i])

\* the step failed with an error of this type and left the holder alone
FailsWith(type) ==
    /\ status'.msg = "Error"
    /\ status'.arg.type = type
    /\ current_result' = current_result

\* the step failed, whatever the error, and left the holder alone
Fails == status'.msg = "Error" /\ current_result' = current_result

\* the step put a rows x cols matrix into the holder
YieldsMatrix(rows, cols) ==
    /\ status'.msg = "Result: matrix"
    /\ current_result'.kind = "ndarray"
    /\ Shape(current_result') = <<rows, cols>>

SumOf(A, B, i, j) == NumAdd(A.rows[i][j], B.rows[i][j])

DifferenceOf(A, B, i, j) == NumSub(A.rows[i][j], B.rows[i][j])

\* what Add (plus = TRUE) or Subtract does on two parsed grids
ElementwiseOn(A, B, plus) ==
    IF Shape(A) = Shape(B)
    THEN /\ YieldsMatrix(A.nrows, A.ncols)
         /\ \A i \in 1..A.nrows : \A j \in 1..A.ncols :
                current_result'.rows[i][j] =
                    IF plus THEN SumOf(A, B, i, j) ELSE DifferenceOf(A, B, i, j)
    ELSE FailsWith("ShapeMismatch")

BothParsed(pa, pb) == pa.kind = "ok" /\ pb.kind = "ok"

\* Add or Subtract as claimed, on what the two text areas parse to
ElementwiseAsClaimed(pa, pb, plus) ==
    /\ BothParsed(pa, pb) => ElementwiseOn(pa.mat, pb.mat, plus)
    /\ (IsBlank(a_txt) \/ IsBlank(b_txt)) => FailsWith("MissingOperand")

\* the same, a blank text area beside an unparsable one giving the parse error
ElementwiseAmended(pa, pb, plus) ==
    /\ BothParsed(pa, pb) => ElementwiseOn(pa.mat, pb.mat, plus)
    /\ (IsBlank(a_txt) \/ IsBlank(b_txt)) => Fails
    /\ (/\ IsBlank(a_txt) \/ IsBlank(b_txt)
        /\ IsBlank(a_txt) \/ pa.kind = "ok"
        /\ IsBlank(b_txt) \/ pb.kind = "ok") => FailsWith("MissingOperand")

RECURSIVE InnerProduct(_, _, _, _, _)
InnerProduct(A, B, i, j, n) ==
    IF n = 0 THEN Num(0)
    ELSE NumAdd(NumMul(A.rows[i][n], B.rows[n][j]), InnerProduct(A, B, i, j, n - 1))

MultiplyOn(A, B) ==
    IF A.ncols = B.nrows
    THEN /\ YieldsMatrix(A.nrows, B.ncols)
         /\ \A i \in 1..A.nrows : \A j \in 1..B.ncols :
                current_result'.rows[i][j] = InnerProduct(A, B, i, j, A.ncols)
    ELSE FailsWith("InnerDimMismatch")

MultiplyAsClaimed(pa, pb) == BothParsed(pa, pb) => MultiplyOn(pa.mat, pb.mat)

SelectedText == IF single_choice = "A" THEN a_txt ELSE b_txt

TransposeOn(M) ==
    /\ YieldsMatrix(M.ncols, M.nrows)
    /\ \A i \in 1..M.nrows : \A j \in 1..M.ncols :
           current_result'.rows[j][i] = M.rows[i][j]

TransposeAsClaimed(ps) ==
    /\ ps.kind = "ok" => TransposeOn(ps.mat)
    /\ FailsWith("MissingOperand") <=> IsBlank(SelectedText)

\* C5: whenever the selected text area parses to a grid M, Transpose yields
\* the cols(M) x rows(M) transpose, whatever the other text area holds; it
\* fails with MissingOperand exactly when the selected text area is blank.
C5_TransposeAsClaimed ==
    [][transpose => TransposeAsClaimed(parse_matrix(SelectedText))]_vars

DeterminantAsClaimed(ps) ==
    ps.kind = "ok" =>
        IF ps.mat.nrows # ps.mat.ncols
        THEN FailsWith("NotSquare")
        ELSE /\ status'.msg = "shown"
             /\ current_result' = Float(Det(ps.mat.rows))

\* C6: on a selected operand M that is present, Determinant fails with
\* NotSquare when rows(M) # cols(M) and otherwise puts the scalar det(M),
\* not a grid, into the last result.
C6_DeterminantAsClaimed ==
    [][determinant => DeterminantAsClaimed(parse_matrix(SelectedText))]_vars

-----------------------------------------------------------------------------
(* Claims about failures, Copy Result and the last result                  *)

Operation == add \/ sub \/ mul \/ transpose \/ determinant

\* a step of a user action that failed: an operation, Load or Save that
\* ended in _handle_error, or Copy or Save with nothing to emit
FailedAction ==
    \/ status'.msg = "Error" /\ (Operation \/ IOLoad \/ Save)
    \/ current_result = None /\ (copy_result \/ Save)

\* every handler has a step to take from this state; the operations are
\* given the pair that _get_matrices returns in it
EveryActionEnabled ==
    /\ \E got \in {_get_matrices} :
          /\ ENABLED (AddOf(got) /\ OpFrame)
          /\ ENABLED (SubOf(got) /\ OpFrame)
          /\ ENABLED (MulOf(got) /\ OpFrame)
          /\ ENABLED (TransposeGot(single_choice, got) /\ OpFrame)
          /\ ENABLED (DeterminantGot(single_choice, got) /\ OpFrame)
    /\ ENABLED copy_result
    /\ \A f \in SaveChoices : ENABLED save_result_csv(f)
    /\ \A w \in {"A", "B"} : \A f \in IOLoadFiles : ENABLED load_csv_into(w, f)
    /\ ENABLED clear_all

\* C7: a user action that fails leaves both text areas as they were (a
\* failed Load neither clears nor overwrites its target), and in every
\* state reached, the states after a failure among them, every action can
\* still be taken.
C7_FailureKeepsTexts ==
    /\ [][FailedAction => a_txt' = a_txt /\ b_txt' = b_txt]_vars
    /\ []EveryActionEnabled

\* Load of a missing file failed while Matrix A held the table loaded before
C7_Witness ==
    /\ status.msg = "Error"
    /\ status.arg.type = "OSError"
    /\ status.arg.msg = "missing.csv not found."
    /\ a_txt = <<"1", ".", "0", " ", "2", ".", "0", "\n",
                 "3", ".", "0", " ", "4", ".", "0">>

\* the rows of a grid, every value through format(x), joined as §4.3 says
FormattedText(mat) ==
    Join(<<"\n">>,
         [i \in 1..mat.nrows |->
             Join(<<" ">>, [j \in 1..mat.ncols |-> _fmt(mat.rows[i][j])])])

FormattedResult(res) ==
    IF res.kind = "ndarray" THEN FormattedText(res) ELSE _fmt(res.val)

\* C9: Copy Result puts on the clipboard the text the Formatter gives: the
\* rows of a grid with every value as format(x), format(value) for a scalar.
C9_CopyUsesFormatter ==
    status.msg = "Result copied to clipboard" =>
        clipboard = FormattedResult(current_result)

\* the status bar shows the error of an operation that failed
OperationFailed ==
    /\ status.msg = "Error"
    /\ status.arg.type \in {"EmptyInput", "NonNumericToken", "RaggedRows",
                            "MissingOperand", "ShapeMismatch",
                            "InnerDimMismatch", "NotSquare"}

\* Copy Result or Save Result wrote something
Emits == (clipboard' # clipboard \/ saved' # saved) /\ (copy_result \/ Save)

\* C10 as stated: once a later operation has been invoked, even one that
\* failed, Copy Result and Save Result emit no result of an earlier one.
C10_AsClaimed == [][OperationFailed => ~Emits]_vars

\* what the result frame shows of a result
Display(res) ==
    IF res.kind = "ndarray"
    THEN [kind |-> "tree", ncols |-> res.ncols,
          rows |-> [i \in 1..res.nrows |->
                       [j \in 1..res.ncols |-> _fmt(res.rows[i][j])]]]
    ELSE [kind |-> "label", label |-> "Determinant", text |-> _fmt(res.val)]

SavedText(res) ==
    IF res.kind = "ndarray" THEN SaveText(res) ELSE Str(res.val)

CopiedText(res) ==
    IF res.kind = "ndarray" THEN matrix_to_text(res) ELSE Str(res.val)

\* C10 amended: a result is held until the next operation that succeeds or
\* Clear: an operation that fails leaves the holder alone, one that succeeds
\* puts its result into holder and display, Clear empties the holder, and
\* Copy Result and Save Result emit the held result or, with none held,
\* nothing.
C10_HeldUntilReplaced ==
    [][/\ (status'.msg = "Error" /\ Operation) => current_result' = current_result
       /\ (status'.msg \in {"Result: matrix", "shown"} /\ Operation) =>
              (current_result' # None /\ shown' = Display(current_result'))
       /\ (status'.msg = "Cleared" /\ clear_all) =>
              (current_result' = None /\ shown'.kind = "message")
       /\ (clipboard' # clipboard /\ copy_result) =>
              (current_result # None /\ clipboard' = CopiedText(current_result))
       /\ (saved' # saved /\ Save) =>
              (current_result # None /\ saved'.content = SavedText(current_result))
       /\ (current_result = None) => ~Emits
      ]_vars

\* an operation failed while the result of an earlier one was held
C10_Witness ==
    /\ OperationFailed
    /\ current_result # None
    /\ shown = Display(current_result)

=============================================================================
